---- MODULE Spec2Model ----
(***************************************************************************)
(* Model of magellan's concurrent collector, CollectInfo                   *)
(* (src/internal/collect.go).  One dispatcher (the goroutine that calls    *)
(* CollectInfo), q.Threads worker goroutines, and the extra goroutine that *)
(* selects on the `done` channel.  Every access to state shared between    *)
(* goroutines (found, node.NodeBMC, q.Host, q.Port, the channels, the      *)
(* WaitGroup) is a step of its own, so that the interleavings the Go       *)
(* scheduler can produce are the interleavings of the model.               *)
(***************************************************************************)
EXTENDS Integers, Sequences, FiniteSets, TLC

\* ---------------------------------------------------------------- bounds
MaxProbes  == 3          \* longest probe list explored
MaxThreads == 2          \* largest q.Threads explored
MaxFaults  == 2          \* most failures the environment injects in one run
MaxSize    == 4          \* probes + threads + failures explored together

\* ------------------------------------------------------ program constants
SSH_PORT   == 22
HTTPS_PORT == 443

Hosts == {"H1", "H2"}
Ports == {HTTPS_PORT, SSH_PORT}

\* BMCProbeResult (Protocol is never read by CollectInfo)
BMCProbeResult == [Host : Hosts, Port : Ports, State : BOOLEAN]

\* The probe lists explored: every list of at most MaxProbes results in which
\* no host:port pair is reported twice.  CollectInfo only copies and compares
\* hosts and ports, so lists that differ by a renaming of the hosts or of the
\* ports behave alike, and one list per renaming class is kept: the one whose
\* first entry is H1 on HTTPS_PORT.
ProbeLists ==
    {l \in UNION {[1..n -> BMCProbeResult] : n \in 0..MaxProbes} :
        /\ \A i, j \in DOMAIN l :
              (l[i].Host = l[j].Host /\ l[i].Port = l[j].Port) => i = j
        /\ l # <<>> => (l[1].Host = "H1" /\ l[1].Port = HTTPS_PORT)}

NoTask == 0
NoHost == "-"
NoPort == 0
NoID   == <<>>

\* xnames.Node literal built by CollectInfo (lines 124-129); String() renders
\* x<Cabinet>c<Chassis>s<ComputeModule>b<NodeBMC>n<Node>
NewNode == [Cabinet |-> 1000, Chassis |-> 1, ComputeModule |-> 7,
            NodeBMC |-> -1, Node |-> 0]

NodeString(n) ==
    <<"x", n.Cabinet, "c", n.Chassis, "s", n.ComputeModule,
      "b", n.NodeBMC, "n", n.Node>>

\* line 164, node.String()[:len(node.String())-2] : drops the trailing "n0"
NodeID(n) == SubSeq(NodeString(n), 1, Len(NodeString(n)) - 2)

\* data := make(map[string]any).  A category key is "absent" (never assigned),
\* "null" (assigned a nil json.RawMessage) or "payload"
NoData == [ID |-> NoID, FQDN |-> NoHost, Inventory |-> "absent",
           Chassis |-> "absent", Interface |-> "absent", Systems |-> "absent"]

\* no <host>.json written yet
NoFile == NoData

VARIABLES
    probeStates,     \* *probeStates, the input list
    probeNil,        \* probeStates == nil
    Threads,         \* q.Threads
    qHost, qPort,    \* q.Host, q.Port : one QueryParams shared by all workers
    node,            \* xnames.Node, shared
    foundArr,        \* backing array of `found` (cap len(*probeStates))
    foundLen,        \* len(found)
    files,           \* <outputDir>/<host>.json contents
    chanProbeState,  \* buffered channel, capacity q.Threads+1
    chanClosed,      \* close(chanProbeState) happened
    doneClosed,      \* close(done) happened
    wg,              \* sync.WaitGroup counter
    mpc,             \* position of the goroutine running CollectInfo
    idx,             \* index of the dispatch loop's range
    ret,             \* CollectInfo's return value: "none", "err", "nil"
    xpc,             \* position of the goroutine selecting on done
    pc,              \* position of each worker
    ps,              \* each worker's ps (index into probeStates)
    data,            \* each worker's data map
    rm,              \* each worker's rm map (its set of keys)
    reg,             \* each worker's value loaded from shared state
    queried,         \* each worker's queries of this task, with their results
    wrote,           \* each worker's os.WriteFile result of this task
    fwd,             \* each worker's AddRedfishEndpoint result of this task
    faults,          \* failures injected so far
    panicked,        \* "no", or the panic that ended the process
    sessions,        \* connections opened and not released: <<task, category>>
    \* history variables
    enqueued,        \* probe indexes sent on chanProbeState
    recvCount,       \* how often each probe index was received
    sunkID           \* per probe index: ID of the record marshalled for it

input   == <<probeStates, probeNil, Threads>>
shared  == <<qHost, qPort, node, foundArr, foundLen, files>>
chans   == <<chanProbeState, chanClosed, doneClosed, wg>>
mainv   == <<mpc, idx, ret>>
locals  == <<ps, data, rm, reg, queried, wrote, fwd>>
env     == <<faults, panicked, sessions>>
history == <<enqueued, recvCount, sunkID>>
vars    == <<input, shared, chans, mainv, xpc, pc, locals, env, history>>

Workers == 1..Threads
found   == SubSeq(foundArr, 1, foundLen)

\* slices.Index(found, h) >= 0
InFound(h) == \E k \in 1..foundLen : foundArr[k] = h

Running == panicked = "no"

Min(a, b) == IF a < b THEN a ELSE b

\* The runs explored are those whose probe list, worker count and number of
\* injected failures add up to at most MaxSize: the failures explored in a
\* run with this list and this many workers
Budget == Min(MaxFaults, MaxSize - Len(probeStates) - Threads)

\* the results the environment may give a call: a failure is one more fault
Results(all) == IF faults < Budget THEN all ELSE {"ok"}
Fault(r) == faults' = IF r = "ok" THEN faults ELSE faults + 1

\* rm[key] as stored into data[key]: the payload when the unmarshalled map
\* holds the key, a nil RawMessage otherwise
RawMessage(m, key) == IF key \in m THEN "payload" ELSE "null"

\* --------------------------------------------------------------- initial
\* the state at the entry of CollectInfo, q.Threads being one of T
Entered(T) ==
    /\ probeStates \in ProbeLists
    /\ probeNil \in {b \in BOOLEAN : b => probeStates = <<>>}
    /\ Threads \in {t \in T : Len(probeStates) + t <= MaxSize}
    /\ qHost = NoHost /\ qPort = NoPort
    /\ node = NewNode
    /\ foundArr = [k \in 1..Len(probeStates) |-> NoHost]
    /\ foundLen = 0
    /\ files = [h \in Hosts |-> NoFile]
    /\ chanProbeState = <<>>
    /\ chanClosed = FALSE /\ doneClosed = FALSE
    /\ wg = 0
    /\ mpc = "check" /\ idx = 0 /\ ret = "none"
    /\ xpc = "unborn"
    /\ pc = [w \in 1..Threads |-> "unborn"]
    /\ ps = [w \in 1..Threads |-> NoTask]
    /\ data = [w \in 1..Threads |-> NoData]
    /\ rm = [w \in 1..Threads |-> {}]
    /\ reg = [w \in 1..Threads |-> 0]
    /\ queried = [w \in 1..Threads |-> <<>>]
    /\ wrote = [w \in 1..Threads |-> "none"]
    /\ fwd = [w \in 1..Threads |-> "none"]
    /\ faults = 0
    /\ panicked = "no"
    /\ sessions = {}
    /\ enqueued = {}
    /\ recvCount = [i \in 1..Len(probeStates) |-> 0]
    /\ sunkID = [i \in 1..Len(probeStates) |-> NoID]

\* CollectInfo called with a pool of at least one worker
Init == Entered(1..MaxThreads)

\* CollectInfo called with any q.Threads >= 0: `for i := 0; i < q.Threads`
\* (line 145) then starts no worker when q.Threads is 0
InitAnyThreads == Entered(0..MaxThreads)

\* ------------------------------------------------ CollectInfo, dispatcher
\* the guard without its length test
NoProbeStatesNilOnly == probeNil

\* lines 116-121: the nil / empty guard
NoProbeStates == probeNil \/ Len(probeStates) <= 0

CheckProbeStates ==
    /\ Running /\ mpc = "check"
    /\ IF NoProbeStates
         THEN mpc' = "returned" /\ ret' = "err"
         ELSE mpc' = "setup" /\ ret' = ret
    /\ UNCHANGED <<input, shared, chans, idx, xpc, pc, locals, env, history>>

\* lines 124-145: node, found, the channels, wg.Add(q.Threads) and the go
\* statements that start the q.Threads workers
StartWorkers ==
    /\ Running /\ mpc = "setup"
    /\ node' = NewNode
    /\ foundLen' = 0
    /\ wg' = wg + Threads
    /\ pc' = [w \in Workers |-> "recv"]
    /\ mpc' = "loop" /\ idx' = 1
    /\ UNCHANGED <<input, qHost, qPort, foundArr, files, chanProbeState,
                   chanClosed, doneClosed, ret, xpc, locals, env, history>>

\* the test without `!ps.State`
SkipEntryIgnoringState(e) == InFound(e.Host)

\* lines 277-278: `!ps.State || foundHost >= 0`
SkipEntry(e) == ~e.State \/ InFound(e.Host)

\* lines 275-280: one iteration's test against found as it is now
LoopCheck ==
    /\ Running /\ mpc = "loop" /\ idx <= Len(probeStates)
    /\ IF SkipEntry(probeStates[idx])
         THEN idx' = idx + 1 /\ mpc' = mpc
         ELSE idx' = idx /\ mpc' = "send"
    /\ UNCHANGED <<input, shared, chans, ret, xpc, pc, locals, env, history>>

\* a buffer one slot larger
ChanHasRoomOffByOne == Len(chanProbeState) <= Threads + 1

\* capacity of make(chan BMCProbeResult, q.Threads+1), line 140
ChanHasRoom == Len(chanProbeState) < Threads + 1

\* line 281: chanProbeState <- ps blocks while the buffer is full
Send ==
    /\ Running /\ mpc = "send"
    /\ ChanHasRoom
    /\ chanProbeState' = Append(chanProbeState, idx)
    /\ enqueued' = enqueued \cup {idx}
    /\ idx' = idx + 1 /\ mpc' = "loop"
    /\ UNCHANGED <<input, shared, chanClosed, doneClosed, wg, ret, xpc, pc,
                   locals, env, recvCount, sunkID>>

\* line 285: go func() { select ... }
GoSelect ==
    /\ Running /\ mpc = "loop" /\ idx > Len(probeStates)
    /\ xpc' = "select"
    /\ mpc' = "close"
    /\ UNCHANGED <<input, shared, chans, idx, ret, pc, locals, env, history>>

\* line 295
CloseChan ==
    /\ Running /\ mpc = "close"
    /\ chanClosed' = TRUE
    /\ mpc' = "wait"
    /\ UNCHANGED <<input, shared, chanProbeState, doneClosed, wg, idx, ret,
                   xpc, pc, locals, env, history>>

\* a Wait that never blocks
WaitReturnsAtOnce == TRUE

\* line 296: wg.Wait() returns when the counter is zero
WaitReturns == wg = 0

Wait ==
    /\ Running /\ mpc = "wait"
    /\ WaitReturns
    /\ mpc' = "closeDone"
    /\ UNCHANGED <<input, shared, chans, idx, ret, xpc, pc, locals, env, history>>

\* line 297
CloseDone ==
    /\ Running /\ mpc = "closeDone"
    /\ doneClosed' = TRUE
    /\ mpc' = "ret"
    /\ UNCHANGED <<input, shared, chanProbeState, chanClosed, wg, idx, ret,
                   xpc, pc, locals, env, history>>

\* line 298
Return ==
    /\ Running /\ mpc = "ret"
    /\ ret' = "nil"
    /\ mpc' = "returned"
    /\ UNCHANGED <<input, shared, chans, idx, xpc, pc, locals, env, history>>

NegativeCounter == "sync: negative WaitGroup counter"

\* wg.Done(): the counter drops by one; sync panics when it goes negative
WgDone ==
    /\ wg' = wg - 1
    /\ panicked' = IF wg - 1 < 0 THEN NegativeCounter ELSE panicked

\* lines 285-293: the goroutine's one select.  A receive from the closed
\* `done` succeeds and wg.Done() follows; on an open, empty `done` the default
\* branch sleeps
Select ==
    /\ Running /\ xpc = "select"
    /\ IF doneClosed
         THEN xpc' = "done" /\ WgDone
         ELSE xpc' = "slept" /\ UNCHANGED <<wg, panicked>>
    /\ UNCHANGED <<input, shared, chanProbeState, chanClosed, doneClosed,
                   mainv, pc, locals, faults, sessions, history>>

\* --------------------------------------------------- CollectInfo, workers
Entry(w) == probeStates[ps[w]]

\* the variables declared inside the loop body (ps, client, data, rm, ...)
\* live for one iteration only
EndIteration(w) ==
    /\ ps' = [ps EXCEPT ![w] = NoTask]
    /\ data' = [data EXCEPT ![w] = NoData]
    /\ rm' = [rm EXCEPT ![w] = {}]
    /\ reg' = [reg EXCEPT ![w] = 0]
    /\ queried' = [queried EXCEPT ![w] = <<>>]
    /\ wrote' = [wrote EXCEPT ![w] = "none"]
    /\ fwd' = [fwd EXCEPT ![w] = "none"]

\* the `continue` statements of the worker loop, and its closing brace:
\* back to the receive
Continue(w) ==
    /\ pc' = [pc EXCEPT ![w] = "recv"]
    /\ EndIteration(w)


\* a receive that leaves the item in the buffer
ReceivedNotRemoved == chanProbeState

\* the buffer after a receive took its first item
Received == Tail(chanProbeState)

\* lines 148-152: ps, ok := <-chanProbeState.  A buffered item is delivered
\* even after close; a closed and empty channel yields !ok, wg.Done(), return
Recv(w) ==
    /\ Running /\ pc[w] = "recv"
    /\ \/ /\ chanProbeState # <<>>
          /\ ps' = [ps EXCEPT ![w] = Head(chanProbeState)]
          /\ chanProbeState' = Received
          /\ recvCount' = [recvCount EXCEPT ![Head(chanProbeState)] = @ + 1]
          /\ pc' = [pc EXCEPT ![w] = "setHost"]
          /\ UNCHANGED <<wg, panicked>>
       \/ /\ chanProbeState = <<>> /\ chanClosed
          /\ WgDone
          /\ pc' = [pc EXCEPT ![w] = "exited"]
          /\ UNCHANGED <<ps, chanProbeState, recvCount>>
    /\ UNCHANGED <<input, shared, chanClosed, doneClosed, mainv, xpc, data, rm,
                   reg, queried, wrote, fwd, faults, sessions, enqueued,
                   sunkID>>

\* line 153: q.Host = ps.Host, on the QueryParams all workers share
SetHost(w) ==
    /\ Running /\ pc[w] = "setHost"
    /\ qHost' = Entry(w).Host
    /\ pc' = [pc EXCEPT ![w] = "setPort"]
    /\ UNCHANGED <<input, qPort, node, foundArr, foundLen, files, chans,
                   mainv, xpc, locals, env, history>>

\* line 154: q.Port = ps.Port
SetPort(w) ==
    /\ Running /\ pc[w] = "setPort"
    /\ qPort' = Entry(w).Port
    /\ pc' = [pc EXCEPT ![w] = "newClient"]
    /\ UNCHANGED <<input, qHost, node, foundArr, foundLen, files, chans,
                   mainv, xpc, locals, env, history>>

\* NewClient (lines 60-112) fails when q.WithSecureTLS is set and the
\* q.CertPoolFile cannot be read
NewClientResults == {"ok", "err"}

\* lines 163-170: the record's fixed keys; ID is read from the shared node
NewData(w) == [NoData EXCEPT !.ID = NodeID(node), !.FQDN = Entry(w).Host]

\* lines 156-173: on error `continue`; otherwise data is set up
NewClient(w) ==
    /\ Running /\ pc[w] = "newClient"
    /\ \E r \in Results(NewClientResults) :
         /\ Fault(r)
         /\ IF r = "err"
              THEN Continue(w)
              ELSE /\ data' = [data EXCEPT ![w] = NewData(w)]
                   /\ pc' = [pc EXCEPT ![w] = "inventory"]
                   /\ UNCHANGED <<ps, rm, reg, queried, wrote, fwd>>
    /\ UNCHANGED <<input, shared, chans, mainv, xpc, panicked, sessions,
                   history>>

\* QueryInventory opens a bmclib session unless Open fails (line 339); a
\* gofish query opens a connection unless gofish.Connect fails (line 572)
Opened(cat, r) == IF cat = "Inventory" THEN r # "openErr" ELSE r # "connectErr"

\* `defer client.Close(ctx)` (line 344) releases the bmclib session when
\* QueryInventory returns; no gofish client is logged out or closed anywhere
Released(cat) == cat = "Inventory"

\* the connections a query leaves open behind it
Connect(w, cat, r) ==
    sessions' = IF Opened(cat, r) /\ ~Released(cat)
                  THEN sessions \cup {<<ps[w], cat>>}
                  ELSE sessions

\* a query of this task and its result, noted for the task's record
Issue(w, cat, r) ==
    /\ queried' = [queried EXCEPT ![w] = Append(@, <<cat, r>>)]
    /\ Fault(r)
    /\ Connect(w, cat, r)

\* QueryInventory (lines 335-366): Open fails, Inventory fails, or the
\* marshalled {"Inventory": ...} comes back
InventoryResults == {"ok", "openErr", "queryErr"}

\* lines 176-181: an error is only logged; json.Unmarshal of the nil result
\* leaves rm as it was, and data["Inventory"] = rm["Inventory"] is assigned
\* in either case
Inventory(w) ==
    /\ Running /\ pc[w] = "inventory"
    /\ \E r \in Results(InventoryResults) :
         LET m == IF r = "ok" THEN rm[w] \cup {"Inventory"} ELSE rm[w] IN
           /\ Issue(w, "Inventory", r)
           /\ rm' = [rm EXCEPT ![w] = m]
           /\ data' = [data EXCEPT ![w].Inventory = RawMessage(m, "Inventory")]
    /\ pc' = [pc EXCEPT ![w] = "chassis"]
    /\ UNCHANGED <<input, shared, chans, mainv, xpc, ps, reg, wrote, fwd,
                   panicked, history>>

\* connectGofish (lines 570-580) then the service call: gofish.Connect fails
\* (it then returns a nil client), the service call fails, or it succeeds
GofishResults == {"ok", "connectErr", "queryErr"}

\* line 573 dereferences the client before err is looked at: with the nil
\* client of a failed gofish.Connect the goroutine panics and the process ends
ConnectPanics(r) == r = "connectErr"

NilDeref == "nil pointer dereference"

Panic(w, cat, r) ==
    /\ panicked' = NilDeref
    /\ Issue(w, cat, r)
    /\ UNCHANGED <<pc, ps, data, rm, reg, wrote, fwd>>

\* a query whose key the record then reads: the payload is unmarshalled into
\* rm under `stored`, and data[key] = rm[key]
Store(w, cat, r, stored, key, next) ==
    LET m == IF r = "ok" THEN rm[w] \cup {stored} ELSE rm[w] IN
      /\ Issue(w, cat, r)
      /\ rm' = [rm EXCEPT ![w] = m]
      /\ data' = [data EXCEPT ![w][key] = RawMessage(m, key)]
      /\ pc' = [pc EXCEPT ![w] = next]
      /\ UNCHANGED <<ps, reg, wrote, fwd, panicked>>

\* lines 184-190: QueryChassis(q); on error `continue`
Chassis(w) ==
    /\ Running /\ pc[w] = "chassis"
    /\ \E r \in Results(GofishResults) :
         IF ConnectPanics(r) THEN Panic(w, "Chassis", r)
         ELSE IF r = "queryErr"
           THEN /\ Continue(w) /\ Fault(r) /\ UNCHANGED panicked
                /\ Connect(w, "Chassis", r)
           ELSE Store(w, "Chassis", r, "Chassis", "Chassis", "interfaces")
    /\ UNCHANGED <<input, shared, chans, mainv, xpc, history>>

\* a worker that goes from the interfaces straight to the increment
AfterInterfacesSkipsSystems == "incRead"

\* lines 199-211: after the interfaces are stored comes the systems query
AfterInterfaces == "systems"

\* lines 193-199 with QueryEthernetInterfaces (446-467): the payload is
\* marshalled under the key "Interfaces", the record reads rm["Interface"];
\* on error `continue`
Interfaces(w) ==
    /\ Running /\ pc[w] = "interfaces"
    /\ \E r \in Results(GofishResults) :
         IF ConnectPanics(r) THEN Panic(w, "EthernetInterfaces", r)
         ELSE IF r = "queryErr"
           THEN /\ Continue(w) /\ Fault(r) /\ UNCHANGED panicked
                /\ Connect(w, "EthernetInterfaces", r)
           ELSE Store(w, "EthernetInterfaces", r, "Interfaces", "Interface",
                      AfterInterfaces)
    /\ UNCHANGED <<input, shared, chans, mainv, xpc, history>>

\* lines 211-216: an error of the service call is only logged
Systems(w) ==
    /\ Running /\ pc[w] = "systems"
    /\ \E r \in Results(GofishResults) :
         IF ConnectPanics(r) THEN Panic(w, "Systems", r)
         ELSE Store(w, "Systems", r, "Systems", "Systems", "incRead")
    /\ UNCHANGED <<input, shared, chans, mainv, xpc, history>>

\* line 226, node.NodeBMC += 1, unsynchronised: the load ...
IncRead(w) ==
    /\ Running /\ pc[w] = "incRead"
    /\ reg' = [reg EXCEPT ![w] = node.NodeBMC]
    /\ pc' = [pc EXCEPT ![w] = "incWrite"]
    /\ UNCHANGED <<input, shared, chans, mainv, xpc, ps, data, rm, queried,
                   wrote, fwd, env, history>>

\* a worker that goes from the increment straight to the forward request
AfterIncrementSkipsWrite == "forward"

\* lines 226-234: after the increment the record is marshalled and written
AfterIncrement == "write"

\* ... and the store
IncWrite(w) ==
    /\ Running /\ pc[w] = "incWrite"
    /\ node' = [node EXCEPT !.NodeBMC = reg[w] + 1]
    /\ pc' = [pc EXCEPT ![w] = AfterIncrement]
    /\ UNCHANGED <<input, qHost, qPort, foundArr, foundLen, files, chans,
                   mainv, xpc, locals, env, history>>

IOResults == {"ok", "err"}

\* a worker that goes from the file write straight to the append
AfterWriteSkipsForward == "appendRead"

\* lines 234-243: after os.WriteFile, whatever it returned, comes the forward
AfterWrite == "forward"

\* lines 231-240: marshal data, write <outputPath>/<q.Host>.json; an error
\* is only logged
WriteFile(w) ==
    /\ Running /\ pc[w] = "write"
    /\ sunkID' = [sunkID EXCEPT ![ps[w]] = data[w].ID]
    /\ \E r \in Results(IOResults) :
         /\ Fault(r)
         /\ wrote' = [wrote EXCEPT ![w] = r]
         /\ files' = IF r = "ok" THEN [files EXCEPT ![qHost] = data[w]] ELSE files
    /\ pc' = [pc EXCEPT ![w] = AfterWrite]
    /\ UNCHANGED <<input, qHost, qPort, node, foundArr, foundLen, chans, mainv,
                   xpc, ps, data, rm, reg, queried, fwd, panicked, sessions,
                   enqueued, recvCount>>

\* lines 243-248: smd.AddRedfishEndpoint; an error is only logged
Forward(w) ==
    /\ Running /\ pc[w] = "forward"
    /\ \E r \in Results(IOResults) :
         /\ Fault(r)
         /\ fwd' = [fwd EXCEPT ![w] = r]
    /\ pc' = [pc EXCEPT ![w] = "appendRead"]
    /\ UNCHANGED <<input, shared, chans, mainv, xpc, ps, data, rm, reg,
                   queried, wrote, panicked, sessions, history>>

\* line 269, found = append(found, ps.Host), unsynchronised: len is loaded ...
AppendRead(w) ==
    /\ Running /\ pc[w] = "appendRead"
    /\ reg' = [reg EXCEPT ![w] = foundLen]
    /\ pc' = [pc EXCEPT ![w] = "appendWrite"]
    /\ UNCHANGED <<input, shared, chans, mainv, xpc, ps, data, rm, queried,
                   wrote, fwd, env, history>>

\* ... and the element and the new len are stored (cap is never exceeded)
AppendWrite(w) ==
    /\ Running /\ pc[w] = "appendWrite"
    /\ foundArr' = [foundArr EXCEPT ![reg[w] + 1] = Entry(w).Host]
    /\ foundLen' = reg[w] + 1
    /\ Continue(w)
    /\ UNCHANGED <<input, qHost, qPort, node, files, chans, mainv, xpc, env,
                   history>>

Next ==
    \/ CheckProbeStates \/ StartWorkers \/ LoopCheck \/ Send \/ GoSelect
    \/ CloseChan \/ Wait \/ CloseDone \/ Return
    \/ Select
    \/ \E w \in Workers : Recv(w)
    \/ \E w \in Workers : SetHost(w)
    \/ \E w \in Workers : SetPort(w)
    \/ \E w \in Workers : NewClient(w)
    \/ \E w \in Workers : Inventory(w)
    \/ \E w \in Workers : Chassis(w)
    \/ \E w \in Workers : Interfaces(w)
    \/ \E w \in Workers : Systems(w)
    \/ \E w \in Workers : IncRead(w)
    \/ \E w \in Workers : IncWrite(w)
    \/ \E w \in Workers : WriteFile(w)
    \/ \E w \in Workers : Forward(w)
    \/ \E w \in Workers : AppendRead(w)
    \/ \E w \in Workers : AppendWrite(w)

Spec == Init /\ [][Next]_vars

\* the steps of the goroutine that runs CollectInfo
Dispatcher ==
    \/ CheckProbeStates \/ StartWorkers \/ LoopCheck \/ Send \/ GoSelect
    \/ CloseChan \/ Wait \/ CloseDone \/ Return

\* the steps of worker goroutine w
Worker(w) ==
    /\ w \in Workers
    /\ \/ Recv(w) \/ SetHost(w) \/ SetPort(w) \/ NewClient(w) \/ Inventory(w)
       \/ Chassis(w) \/ Interfaces(w) \/ Systems(w) \/ IncRead(w)
       \/ IncWrite(w) \/ WriteFile(w) \/ Forward(w) \/ AppendRead(w)
       \/ AppendWrite(w)

\* The Go scheduler runs every goroutine that can take a step, and every
\* call into a library returns (with success or error): each goroutine is
\* weakly fair.
Fairness ==
    /\ WF_vars(Dispatcher)
    /\ WF_vars(Select)
    /\ \A w \in 1..MaxThreads : WF_vars(Worker(w))

FairSpec == Spec /\ Fairness

SpecAnyThreads == InitAnyThreads /\ [][Next]_vars

\* ------------------------------------------------------------- properties
Tasks == DOMAIN probeStates

InChan(i) == \E k \in DOMAIN chanProbeState : chanProbeState[k] = i
Holders(i) == {w \in DOMAIN ps : ps[w] = i}
EmptyInput == probeNil \/ probeStates = <<>>
PoolStarted == \A w \in DOMAIN pc : pc[w] # "unborn"

\* C1: a probe entry whose State is false is never sent on chanProbeState,
\* never sits in its buffer and is never held by a worker.
C1_UnreachableNeverEnqueued ==
    \A i \in Tasks :
        ~probeStates[i].State =>
            /\ i \notin enqueued
            /\ ~InChan(i)
            /\ recvCount[i] = 0
            /\ Holders(i) = {}

\* the dispatch loop has passed an unreachable entry, has sent another one,
\* and CollectInfo has returned
C1_Witness ==
    /\ ret = "nil"
    /\ enqueued # {}
    /\ \E i \in Tasks : ~probeStates[i].State /\ (\E j \in enqueued : j > i)

\* C2: of the reachable entries of one host, at most one is ever sent on
\* chanProbeState (the claim: exactly one task per host in every interleaving).
C2_OneTaskPerHost ==
    \A i, j \in enqueued : probeStates[i].Host = probeStates[j].Host => i = j

\* C3: within a task, whatever the result of a category's query, the worker
\* goes on to the next category in the order Inventory, Chassis,
\* EthernetInterfaces, Systems, and after Systems to the record's write
\* (the claim, for the steps that do not end the process).
C3_FailureKeepsGoing ==
    [][\A w \in DOMAIN pc :
          (panicked' = "no" /\ pc'[w] # pc[w]) =>
              /\ pc[w] = "inventory"  => pc'[w] = "chassis"
              /\ pc[w] = "chassis"    => pc'[w] = "interfaces"
              /\ pc[w] = "interfaces" => pc'[w] = "systems"
              /\ pc[w] = "systems"    => pc'[w] = "incRead"]_vars

\* C4: the IDs of the records marshalled for writing and forwarding are
\* pairwise distinct (the claim, for every W >= 1).
C4_DistinctIDs ==
    \A i, j \in Tasks :
        (i # j /\ sunkID[i] # NoID /\ sunkID[j] # NoID) => sunkID[i] # sunkID[j]

\* C5: at most Threads+1 tasks wait in the channel and at most Threads tasks
\* are with workers; a dispatcher whose send finds the buffer full cannot
\* proceed; no more than Threads workers exist.
C5_BoundedPool ==
    /\ Len(chanProbeState) <= Threads + 1
    /\ Cardinality({w \in DOMAIN ps : ps[w] # NoTask}) <= Threads
    /\ Cardinality({w \in DOMAIN pc : pc[w] # "unborn"}) <= Threads
    /\ (mpc = "send" /\ Len(chanProbeState) = Threads + 1) => ~ENABLED Send

\* the buffer is full and the dispatcher is blocked in its send
C5_Witness ==
    /\ mpc = "send"
    /\ Len(chanProbeState) = Threads + 1
    /\ ~ENABLED Send

C8_SingleBarrier ==
    /\ wg >= 0
    /\ xpc # "done"
    /\ PoolStarted =>
          wg = Cardinality({w \in DOMAIN pc : pc[w] # "exited"})

\* C9: from the start of the pool until the channel is closed and drained,
\* every worker is alive, whatever failed while handling a host (the claim).
WorkerAlive(w) == Running /\ pc[w] \notin {"unborn", "exited"}

C9_FailureIsolation ==
    (PoolStarted /\ ~(chanClosed /\ chanProbeState = <<>>)) =>
        \A w \in DOMAIN pc : WorkerAlive(w)

C11_SinkStepsIndependent ==
    [][\A w \in DOMAIN pc :
          /\ (pc'[w] = "forward" /\ pc[w] # "forward") =>
                 pc[w] = "write" /\ wrote'[w] \in IOResults
          /\ (pc[w] = "write" /\ pc'[w] # "write") => pc'[w] = "forward"
          /\ (pc[w] = "forward" /\ pc'[w] # "forward") =>
                 /\ fwd'[w] \in IOResults
                 /\ wrote'[w] = wrote[w] /\ wrote[w] \in IOResults
                 /\ files' = files
                 /\ pc'[w] = "appendRead"
          /\ (pc[w] = "appendRead" /\ pc'[w] # pc[w]) => pc'[w] = "appendWrite"
          /\ (pc[w] = "appendWrite" /\ pc'[w] # pc[w]) => pc'[w] = "recv"]_vars

\* a worker whose file write failed and whose forward request failed is about
\* to append its host and go on
C11_Witness ==
    \E w \in DOMAIN pc :
        pc[w] = "appendRead" /\ wrote[w] = "err" /\ fwd[w] = "err"

\* the record key that belongs to each category
CategoryKey == [Inventory |-> "Inventory", Chassis |-> "Chassis",
                EthernetInterfaces |-> "Interface", Systems |-> "Systems"]

\* C12: in a record that was written, each category's key holds the payload
\* when the category's query of this task succeeded and is absent when the
\* query failed (the claim: absent, not null-valued).
C12_KeyIffQuerySucceeded ==
    \A w \in DOMAIN pc :
        wrote[w] = "ok" =>
            \A k \in DOMAIN queried[w] :
                data[w][CategoryKey[queried[w][k][1]]] =
                    IF queried[w][k][2] = "ok" THEN "payload" ELSE "absent"

\* the calls of a task that read q.Host and q.Port
UsesQ == {"newClient", "inventory", "chassis", "interfaces", "systems", "write"}

\* C13: whenever a worker is about to build its client, issue a query or
\* write its record, q.Host and q.Port are the host and port of the entry it
\* received, and every file <h>.json holds a record whose FQDN is h (the
\* claim, for every interleaving).
C13_OwnHostAndPort ==
    /\ \A w \in DOMAIN pc :
          pc[w] \in UsesQ => (qHost = Entry(w).Host /\ qPort = Entry(w).Port)
    /\ \A h \in Hosts : files[h] # NoFile => files[h].FQDN = h

\* the task's first query found that client.Open failed
OpenFailed(w) ==
    queried[w] # <<>> /\ queried[w][1] = <<"Inventory", "openErr">>

\* C14: a task whose client.Open failed issues no further query, and no
\* record is written or forwarded for it (the claim).
C14_OpenFailureEndsTask ==
    \A w \in DOMAIN pc :
        OpenFailed(w) =>
            /\ Len(queried[w]) = 1
            /\ wrote[w] = "none"
            /\ fwd[w] = "none"

\* C15: every connection that is open belongs to a task some worker still
\* has in hand: none outlives its task into the worker's next receive (the
\* claim, for every exit path).
C15_ReleasedBeforeNextTask ==
    \A c \in sessions : \E w \in DOMAIN ps : ps[w] = c[1]

\* the tasks that reached the sink; once CollectInfo has returned these are
\* the tasks that ran to the end of the worker loop
Completed == {i \in Tasks : sunkID[i] # NoID}

\* C16: when CollectInfo has returned, found holds one entry per task that
\* ran to the end of the worker loop and node.NodeBMC is -1 plus the number
\* of such tasks (the claim, for every interleaving with two or more workers).
C16_NoLostUpdate ==
    ret = "nil" =>
        /\ foundLen = Cardinality(Completed)
        /\ node.NodeBMC = NewNode.NodeBMC + Cardinality(Completed)

\* C17: under fair scheduling, with every call returning, CollectInfo called
\* with a non-empty probe list eventually returns with every worker exited
\* (the claim, for every worker count of one or more).
C17_EventuallyReturns ==
    <>(EmptyInput \/ (mpc = "returned" /\ \A w \in DOMAIN pc : pc[w] = "exited"))

\* the order of the category queries in the loop body
QueryOrder == <<"Inventory", "Chassis", "EthernetInterfaces", "Systems">>

\* the number of queries that have returned when a worker is at position p
Returned(p) ==
    CASE p \in {"unborn", "recv", "setHost", "setPort", "newClient",
                "inventory", "exited"} -> 0
      [] p = "chassis" -> 1
      [] p = "interfaces" -> 2
      [] p = "systems" -> 3
      [] OTHER -> 4

\* C18: the queries a task has issued are, in this order and each once, the
\* first ones of Inventory, Chassis, EthernetInterfaces, Systems; a worker
\* about to issue a query has had the results of all the earlier ones (a
\* query that ended the process is the last one issued); the file write and
\* the forward request come only when all four have returned.
C18_SequentialQueries ==
    \A w \in DOMAIN pc :
        /\ Len(queried[w]) <= Len(QueryOrder)
        /\ \A k \in DOMAIN queried[w] : queried[w][k][1] = QueryOrder[k]
        /\ \/ Len(queried[w]) = Returned(pc[w])
           \/ /\ panicked = NilDeref
              /\ Len(queried[w]) = Returned(pc[w]) + 1
              /\ queried[w][Len(queried[w])][2] = "connectErr"
        /\ (pc[w] \in {"write", "forward"} \/ wrote[w] # "none" \/ fwd[w] # "none")
              => Len(queried[w]) = Len(QueryOrder)

\* a record is written and forwarded after four queries of which the first
\* failed
C18_Witness ==
    \E w \in DOMAIN pc :
        /\ wrote[w] = "ok" /\ fwd[w] = "ok"
        /\ Len(queried[w]) = Len(QueryOrder)
        /\ queried[w][1][2] = "queryErr"

\* C19: a worker that abandons its task (from NewClient, the Chassis query
\* or the EthernetInterfaces query back to the receive) changes neither
\* node, nor found, nor any file in that step, and has written and forwarded
\* nothing for the task; node changes only in the increment, files only in
\* the write, and found only in the append of a worker whose write and
\* forward have both been attempted.
C19_AbandonLeavesNoTrace ==
    [][/\ \A w \in DOMAIN pc :
             (pc[w] \in {"newClient", "chassis", "interfaces"} /\ pc'[w] = "recv")
               => /\ node' = node
                  /\ foundArr' = foundArr /\ foundLen' = foundLen
                  /\ files' = files
                  /\ wrote[w] = "none" /\ fwd[w] = "none"
                  /\ sunkID[ps[w]] = NoID
       /\ node' # node =>
             \E w \in DOMAIN pc : pc[w] = "incWrite" /\ pc'[w] # pc[w]
       /\ files' # files =>
             \E w \in DOMAIN pc : pc[w] = "write" /\ pc'[w] # pc[w]
       /\ (foundArr' # foundArr \/ foundLen' # foundLen) =>
             \E w \in DOMAIN pc :
                 /\ pc[w] = "appendWrite" /\ pc'[w] = "recv"
                 /\ wrote[w] \in IOResults /\ fwd[w] \in IOResults
                 /\ foundArr'[foundLen'] = Entry(w).Host]_vars

\* CollectInfo has returned from a run in which one task was abandoned and
\* another ran to the end: one host in found, the counter advanced once
C19_Witness ==
    /\ ret = "nil"
    /\ \E i, j \in enqueued :
          /\ recvCount[i] = 1 /\ sunkID[i] = NoID
          /\ sunkID[j] # NoID
    /\ foundLen = 1
    /\ node.NodeBMC = NewNode.NodeBMC + 1

\* C20: for every worker count, zero included, a dispatcher whose send finds
\* the buffer full has a worker left that will receive, and when CollectInfo
\* has returned every task it sent has been received (the claim).
C20_AnyWorkerCount ==
    /\ (mpc = "send" /\ ~ChanHasRoom) => \E w \in DOMAIN pc : pc[w] # "exited"
    /\ ret = "nil" => \A i \in enqueued : recvCount[i] = 1
====
